---- MODULE Spec2Model ----
(***************************************************************************)
(* SSMP: a length-prefixed request/response protocol in front of a shared  *)
(* in-memory key-value store (ssmp_server.py), and its clients             *)
(* (ssmp_client.py).                                                       *)
(*                                                                         *)
(* One handler thread per accepted connection runs handle_client.  The     *)
(* handler's steps are cut where the code blocks or where another thread   *)
(* can interleave: the two socket reads, the acquisition of the Store's    *)
(* lock, the statements under the lock, and the socket write.              *)
(*                                                                         *)
(* Text is a sequence of one-character strings, so that str.upper and the  *)
(* byte length of a payload are computed, not assumed.                     *)
(***************************************************************************)
EXTENDS Integers, Sequences, FiniteSets, TLC

\* ------------------------------------------------------------------ bounds
\* Number of client connections the listener may accept.
NConns == 2
\* Number of distinct string keys the clients use ("", "k", "kk", ...).
NKeys == 2

\* Number of complete frames a peer may have in flight on a connection.
MaxInFlight == 1

Conns == 1..NConns

\* ------------------------------------------------------------ JSON values
\* A decoded JSON token.  t is its Python type after json.loads:
\* "str" (s holds the text), "num" (n holds the int), "null" (None),
\* "list" (a nested list, unhashable).
JStr(chars) == [t |-> "str", s |-> chars, n |-> 0]
JNum(i) == [t |-> "num", s |-> <<>>, n |-> i]
JNull == [t |-> "null", s |-> <<>>, n |-> 0]
JList == [t |-> "list", s |-> <<>>, n |-> 0]

OK == JStr(<<"O", "K">>)
ERR == JStr(<<"E", "R", "R">>)
PONG == JStr(<<"P", "O", "N", "G">>)
INVALID_PAYLOAD == JStr(<<"I", "N", "V", "A", "L", "I", "D", "_", "P", "A", "Y", "L", "O", "A", "D">>)
UNKNOWN_COMMAND == JStr(<<"U", "N", "K", "N", "O", "W", "N", "_", "C", "O", "M", "M", "A", "N", "D">>)
NOT_FOUND == JStr(<<"N", "O", "T", "_", "F", "O", "U", "N", "D">>)

PING == <<"P", "I", "N", "G">>
SET == <<"S", "E", "T">>
GET == <<"G", "E", "T">>
DEL == <<"D", "E", "L">>
EXISTS == <<"E", "X", "I", "S", "T", "S">>

\* ------------------------------------------------------------- str.upper
LowerCase == <<"a", "b", "c", "d", "e", "f", "g", "h", "i", "j", "k", "l", "m", "n", "o", "p", "q", "r", "s", "t", "u", "v", "w", "x", "y", "z">>
UpperCase == <<"A", "B", "C", "D", "E", "F", "G", "H", "I", "J", "K", "L", "M", "N", "O", "P", "Q", "R", "S", "T", "U", "V", "W", "X", "Y", "Z">>

\* The upper-case letter of each lower-case letter.
UpperOf ==
    [ch \in {LowerCase[i] : i \in DOMAIN LowerCase} |->
        UpperCase[CHOOSE i \in DOMAIN LowerCase : LowerCase[i] = ch]]

UpperChar(ch) == IF ch \in DOMAIN UpperOf THEN UpperOf[ch] ELSE ch

\* The first token compared as it was sent.
NoUpper(chars) == chars

\* command_list[0].upper()
Upper(chars) == [i \in 1..Len(chars) |-> UpperChar(chars[i])]

\* ---------------------------------------------------------------- payloads
\* The bytes of one payload, by what the decoder makes of them:
\*   raw = "empty"    no bytes at all (a header announcing length 0)
\*   raw = "badutf8"  bytes that are not UTF-8 (b'\xff')
\*   raw = "badjson"  text that is not JSON (b'{')
\*   raw = "scalar"   a JSON document that is not an array (b'7')
\*   raw = "list"     a JSON array of the tokens in list
Body(raw, list) == [raw |-> raw, list |-> list]
EmptyBody == Body("empty", <<>>)
Req(list) == Body("list", list)

\* len(json.dumps(token))
TokLen(tok) ==
    CASE tok.t = "str" -> Len(tok.s) + 2
      [] tok.t = "num" -> IF tok.n < 10 THEN 1 ELSE 2
      [] tok.t = "null" -> 4
      [] OTHER -> 2

RECURSIVE SumTokLen(_)
SumTokLen(list) ==
    IF list = <<>> THEN 0 ELSE TokLen(Head(list)) + SumTokLen(Tail(list))

\* len(payload) as the sender computes it for the header: json.dumps writes
\* the brackets and a ", " between items.
PayloadLen(b) ==
    CASE b.raw = "empty" -> 0
      [] b.raw = "list" ->
            IF b.list = <<>> THEN 2 ELSE 2 + SumTokLen(b.list) + 2 * (Len(b.list) - 1)
      [] OTHER -> 1

\* payload.decode('utf-8') then json.loads: the exception raised ("none" when
\* the payload decodes), whether the value is a list, and the list.
Decode(b) ==
    CASE b.raw = "badutf8" -> [exc |-> "UnicodeDecodeError", isList |-> FALSE, list |-> <<>>]
      [] b.raw = "list" -> [exc |-> "none", isList |-> TRUE, list |-> b.list]
      [] b.raw = "scalar" -> [exc |-> "none", isList |-> FALSE, list |-> <<>>]
      [] OTHER -> [exc |-> "JSONDecodeError", isList |-> FALSE, list |-> <<>>]

\* -------------------------------------------------------------- the bytes
\* A byte is an integer in 0..255.  The printable ASCII characters, from
\* " " (32) to "~" (126): str.encode('utf-8') maps each to its code ("grave"
\* stands for the character 96, which no text here uses).
Ascii ==
    <<" ", "!", "\"", "#", "$", "%", "&", "'", "(", ")", "*", "+", ",", "-", ".", "/",
       "0", "1", "2", "3", "4", "5", "6", "7", "8", "9", ":", ";", "<", "=", ">", "?",
       "@", "A", "B", "C", "D", "E", "F", "G", "H", "I", "J", "K", "L", "M", "N", "O",
       "P", "Q", "R", "S", "T", "U", "V", "W", "X", "Y", "Z", "[", "\\", "]", "^", "_",
       "grave", "a", "b", "c", "d", "e", "f", "g", "h", "i", "j", "k", "l", "m", "n", "o",
       "p", "q", "r", "s", "t", "u", "v", "w", "x", "y", "z", "{", "|", "}", "~">>

OrdOf == [ch \in {Ascii[i] : i \in DOMAIN Ascii} |-> 31 + CHOOSE i \in DOMAIN Ascii : Ascii[i] = ch]

\* text.encode('utf-8') of ASCII text
Utf8(chars) == [i \in 1..Len(chars) |-> OrdOf[chars[i]]]

\* json.dumps of one token: a string in double quotes (the texts used here
\* need no escapes), an int in decimal, None as null, an empty list as [].
DumpsTok(tok) ==
    CASE tok.t = "str" -> <<"\"">> \o tok.s \o <<"\"">>
      [] tok.t = "num" ->
            IF tok.n < 10 THEN <<Ascii[17 + tok.n]>>
            ELSE <<Ascii[17 + (tok.n \div 10)], Ascii[17 + (tok.n % 10)]>>
      [] tok.t = "null" -> <<"n", "u", "l", "l">>
      [] OTHER -> <<"[", "]">>

RECURSIVE DumpsItems(_)
DumpsItems(list) ==
    IF list = <<>> THEN <<>>
    ELSE IF Len(list) = 1 THEN DumpsTok(Head(list))
    ELSE DumpsTok(Head(list)) \o <<",", " ">> \o DumpsItems(Tail(list))

\* json.dumps(data) of a list of tokens
Dumps(list) == <<"[">> \o DumpsItems(list) \o <<"]">>

\* The payload bytes of a body.
Bytes(b) ==
    CASE b.raw = "empty" -> <<>>
      [] b.raw = "badutf8" -> <<255>>
      [] b.raw = "badjson" -> Utf8(<<"{">>)
      [] b.raw = "scalar" -> Utf8(<<"7">>)
      [] OTHER -> Utf8(Dumps(b.list))

\* struct.pack('!I', n): four bytes, the most significant first
PackU32(n) ==
    <<(n \div 16777216) % 256, (n \div 65536) % 256, (n \div 256) % 256, n % 256>>

\* struct.unpack('!I', header)[0]
UnpackU32(header) ==
    header[1] * 16777216 + header[2] * 65536 + header[3] * 256 + header[4]

\* pack_message / _pack_message: header + payload.  FrameOf is the same for
\* payload bytes a peer writes itself.
FrameOf(bytes) == PackU32(Len(bytes)) \o bytes
pack_message(b) == FrameOf(Bytes(b))

\* ------------------------------------------------------------ the clients
\* String keys "", "k", "kk", ... and one string value per connection
\* "", "v", "vv", ...: the empty string is a key and a value.
KeyOf(i) == JStr([j \in 1..i |-> "k"])
ValOf(c) == JStr([j \in 1..(c - 1) |-> "v"])
Keys == {KeyOf(i) : i \in 0..(NKeys - 1)}
Vals == {ValOf(c) : c \in Conns}

\* What a client may send.  A "kv" client uses the API of SSMPClient
\* (set/get/delete/exists) on one key with its own value; an "any" client
\* writes arbitrary frames to the socket.
AnyClient == [kind |-> "any", key |-> KeyOf(0)]
KvClient(k) == [kind |-> "kv", key |-> k]

\* SSMPClient.set / get / delete / exists: the request lists they send.
KvBodies(k, v) ==
    { Req(<<JStr(SET), k, v>>), Req(<<JStr(GET), k>>),
      Req(<<JStr(DEL), k>>), Req(<<JStr(EXISTS), k>>) }

\* Frames a raw client can put on the wire: every payload shape the server
\* distinguishes, every command in several spellings and arities, and
\* arguments that are strings, null, or a nested list.
KeyArgs == Keys \cup {JList}
ValArgs == Vals \cup {JNull}
AnyBodies ==
    { EmptyBody, Body("badutf8", <<>>), Body("badjson", <<>>), Body("scalar", <<>>),
      Req(<<>>), Req(<<JNum(5)>>), Req(<<JNull, KeyOf(0)>>),
      Req(<<JStr(PING)>>), Req(<<JStr(<<"p", "i", "n", "g">>)>>),
      Req(<<JStr(PING), KeyOf(0)>>),
      Req(<<JStr(<<"F", "O", "O">>)>>), Req(<<JStr(GET)>>),
      Req(<<JStr(SET), KeyOf(0)>>), Req(<<JStr(<<"g", "e", "t">>), KeyOf(0)>>) }
    \cup { Req(<<JStr(SET), k, v>>) : k \in KeyArgs, v \in ValArgs }
    \cup { Req(<<JStr(GET), k>>) : k \in KeyArgs }
    \cup { Req(<<JStr(DEL), k>>) : k \in KeyArgs }
    \cup { Req(<<JStr(EXISTS), k>>) : k \in KeyArgs }

\* A peer that writes bytes to the socket itself: frames of its choice, whole
\* or cut short by closing the stream.
WireClient == [kind |-> "wire", key |-> KeyOf(0)]
WireBodies ==
    { EmptyBody, Body("badjson", <<>>), Req(<<JStr(PING)>>),
      Req(<<JStr(SET), KeyOf(0), ValOf(1)>>), Req(<<JStr(DEL), KeyOf(0)>>) }

\* json.loads(payload.decode('utf-8')) of the payloads a peer can send, by
\* the body they are the bytes of; any other bytes (a payload cut short)
\* are not JSON.
BodyOf == [x \in {Bytes(b) : b \in WireBodies} |-> CHOOSE b \in WireBodies : Bytes(b) = x]
Parse(bytes) == IF bytes \in DOMAIN BodyOf THEN BodyOf[bytes] ELSE Body("badjson", <<>>)

\* str.lower, for the spellings of a command name.
LowerOf ==
    [ch \in {UpperCase[i] : i \in DOMAIN UpperCase} |->
        LowerCase[CHOOSE i \in DOMAIN UpperCase : UpperCase[i] = ch]]
Lower(chars) ==
    [i \in 1..Len(chars) |-> IF chars[i] \in DOMAIN LowerOf THEN LowerOf[chars[i]] ELSE chars[i]]

\* A client that spells the command names in upper case, in lower case and
\* capitalised ("GET", "get", "Get"), on two keys that differ only in case,
\* each set to the value that is spelled like it.
CaseClient == [kind |-> "case", key |-> KeyOf(1)]
Spellings(name) == {name, Lower(name), <<Head(name)>> \o Lower(Tail(name))}
CaseKeys == {JStr(<<"k">>), JStr(<<"K">>)}
CaseBodies ==
    UNION { { Req(<<JStr(sp)>>) : sp \in Spellings(PING) },
            { Req(<<JStr(sp), k, k>>) : sp \in Spellings(SET), k \in CaseKeys },
            { Req(<<JStr(sp), k>>) : sp \in Spellings(GET), k \in CaseKeys },
            { Req(<<JStr(sp), k>>) : sp \in Spellings(DEL), k \in CaseKeys },
            { Req(<<JStr(sp), k>>) : sp \in Spellings(EXISTS), k \in CaseKeys } }

\* A client that uses a key like the others and also sends what ends its
\* handler: a first token that is not a string, a key that is a list, a
\* frame without payload.
FaultClient(k) == [kind |-> "fault", key |-> k]
FaultBodies(k, v) ==
    { Req(<<JStr(SET), k, v>>), Req(<<JStr(DEL), k>>),
      Req(<<JNum(5)>>), Req(<<JStr(GET), JList>>), EmptyBody }

\* ------------------------------------------------------------------ state
VARIABLES
    backlog,         \* clients whose connect() the listener has not accepted yet
    client,          \* per connection: what its client sends
    pc,              \* per connection: where its handler thread is
    payload_length,  \* per connection: handle_client's payload_length
    payload,         \* per connection: handle_client's payload
    response,        \* per connection: handle_client's response (<<>> is None)
    data,            \* DATA_STORE._data: a function from keys to values
    holders,         \* the threads inside "with self._lock"
    why,             \* per connection: what ended the handler ("" while it runs)
    unanswered,      \* per connection: complete frames read minus responses written
    lastMut,         \* per key: the last mutation the Store executed on it
    connection,      \* per connection: the socket accept() returned ("none" before)
    main_pc,         \* where the main thread is: the accept loop, returned, or gone
    server_socket,   \* the listening socket: "listening" or "closed"
    wire,            \* per connection: bytes the peer sent that recv has not returned yet
    fin,             \* per connection: the peer has closed its end of the stream
    read_data,       \* per connection: read_fully's data, the bytes of the current read
    sent,            \* per connection: the payloads of the complete frames in flight
    socket,          \* SSMPClient._socket: "None", "unconnected" or "connected"
    cpc,             \* where the SSMPClient's call is
    out,             \* the bytes the call in hand (or the last one) has sent
    inbox,           \* bytes the SSMPClient's peer sent that recv has not returned yet
    peer_fin,        \* the SSMPClient's peer has closed the stream
    cdata,           \* SSMPClient._read_fully's data
    clength,         \* _send_request's payload_length
    result           \* what the call returned or raised

\* The main thread; only the shutdown changes it.
mainVars == <<main_pc, server_socket>>

\* An SSMPClient object and its socket; only the client's specification
\* changes them.
clientVars == <<socket, cpc, out, inbox, peer_fin, cdata, clength, result>>

\* The server's side.
serverVars == <<backlog, client, pc, payload_length, payload, response, data, holders, why,
                unanswered, lastMut, connection>>

\* The byte streams; only the byte-level specification changes them.
wireVars == <<wire, fin, read_data, sent>>

vars == <<serverVars, mainVars, wireVars, clientVars>>

Frames(c) ==
    CASE client[c].kind = "any" -> AnyBodies
      [] client[c].kind = "wire" -> WireBodies
      [] client[c].kind = "fault" -> FaultBodies(client[c].key, ValOf(c))
      [] client[c].kind = "case" -> CaseBodies
      [] OTHER -> KvBodies(client[c].key, ValOf(c))

EmptyDict == [k \in {} |-> JNull]

\* What a call of the SSMPClient came to: nothing yet, a returned response
\* (a list of tokens), or a raised exception (its class).
NoResult == [kind |-> "none", exc |-> "", value |-> <<>>]
Returns(list) == [kind |-> "return", exc |-> "", value |-> list]
Raises(exc) == [kind |-> "raise", exc |-> exc, value |-> <<>>]

InitState ==
    /\ pc = [c \in Conns |-> "NONE"]
    /\ payload_length = [c \in Conns |-> 0]
    /\ payload = [c \in Conns |-> EmptyBody]
    /\ response = [c \in Conns |-> <<>>]
    /\ data = EmptyDict
    /\ holders = {}
    /\ why = [c \in Conns |-> ""]
    /\ unanswered = [c \in Conns |-> 0]
    /\ lastMut = EmptyDict
    /\ connection = [c \in Conns |-> "none"]
    /\ main_pc = "ACCEPT"
    /\ server_socket = "listening"
    /\ wire = [c \in Conns |-> <<>>]
    /\ fin = [c \in Conns |-> FALSE]
    /\ read_data = [c \in Conns |-> <<>>]
    /\ sent = [c \in Conns |-> <<>>]
    /\ socket = "None"
    /\ cpc = "idle"
    /\ out = <<>>
    /\ inbox = <<>>
    /\ peer_fin = FALSE
    /\ cdata = <<>>
    /\ clength = 0
    /\ result = NoResult

\* The server just started; one raw client is about to connect.
Init ==
    /\ InitState
    /\ backlog = {1}
    /\ client = [c \in Conns |-> AnyClient]

\* The ways the connections can share keys: own[c] is the index of the key of
\* connection c.  A connection uses a key an earlier connection uses or the
\* first unused one, which gives every partition of the connections into
\* groups with a common key once (the Store treats all string keys alike).
Layouts ==
    { own \in [Conns -> 0..(NKeys - 1)] :
        \A c \in Conns : own[c] <= Cardinality({own[d] : d \in 1..(c - 1)}) }

\* The server just started; every connection uses the client API on a key of
\* its own (two connections may use the same key).
InitKv ==
    /\ InitState
    /\ backlog = Conns
    /\ client \in { [c \in Conns |-> KvClient(KeyOf(own[c]))] : own \in Layouts }

\* ---------------------------------------------------------- KeyValueStore
\* Python raises TypeError when a list is used as a dict key.
Hashable(key) == key.t # "list"

\* set writing the value to every key of the dict instead of to its own.
DictSetEvery(d, key, value) == [x \in (DOMAIN d) \cup {key} |-> value]

\* self._data[key] = value
DictSet(d, key, value) == [x \in (DOMAIN d) \cup {key} |-> IF x = key THEN value ELSE d[x]]

\* self._data.get(key): None (JNull) when the key is absent
DictGet(d, key) == IF key \in DOMAIN d THEN d[key] ELSE JNull

\* key in self._data
DictHas(d, key) == key \in DOMAIN d

\* delete without its "del" statement.
DictDelKeeps(d, key) == d

\* del self._data[key]
DictDel(d, key) == [x \in (DOMAIN d) \ {key} |-> d[x]]

\* History of a key: which call last changed it ("SET" or "DEL"; "" when the
\* key was never touched), on which connection, and the value a SET wrote.
Mutation(op, c, value) == [op |-> op, by |-> c, val |-> value]
LastMut(key) == IF key \in DOMAIN lastMut THEN lastMut[key] ELSE Mutation("", 0, JNull)
\* The history after the Store executed mutation m on key.
Noted(key, m) == [x \in (DOMAIN lastMut) \cup {key} |-> IF x = key THEN m ELSE lastMut[x]]

\* A lock that never blocks (a lock object created per call).
LockNeverBlocks == TRUE

\* threading.Lock.acquire: blocks while another thread holds the lock
LockFree == holders = {}

\* ---------------------------------------------------------- handle_client
\* if not isinstance(command_list, list) or not command_list: raise ValueError
\* together with the except clause: JSONDecodeError, and ValueError with its
\* subclass UnicodeDecodeError, are the exceptions caught there.
InvalidFormat(d) == d.exc # "none" \/ ~d.isList \/ d.list = <<>>

\* "if not payload": true of None and of an empty bytearray
NotPayload(b) == PayloadLen(b) = 0

\* The if/elif chain on (command, len(args)): the branch taken.
Route(command, args) ==
    IF command = PING THEN "PING"
    ELSE IF command = SET /\ Len(args) = 2 THEN "SET"
    ELSE IF command = GET /\ Len(args) = 1 THEN "GET"
    ELSE IF command = DEL /\ Len(args) = 1 THEN "DEL"
    ELSE IF command = EXISTS /\ Len(args) = 1 THEN "EXISTS"
    ELSE "UNKNOWN"

\* "if value:" in place of "if value is not None:": an empty string is falsy.
GetResponseTruthy(value) ==
    IF value.t # "null" /\ value.s # <<>> THEN <<OK, value>> ELSE <<ERR, NOT_FOUND>>

\* No test of the value at all: an absent key is a success carrying null.
GetResponseNoTest(value) == <<OK, value>>

\* response after DATA_STORE.get: ['OK', value] if value is not None
GetResponse(value) == IF value.t # "null" THEN <<OK, value>> ELSE <<ERR, NOT_FOUND>>

\* command_list, command and args of the request a handler is processing
CommandList(c) == Decode(payload[c]).list
Command(c) == Upper(Head(CommandList(c)).s)
Args(c) == Tail(CommandList(c))
Branch(c) == Route(Command(c), Args(c))

\* connection.close() written after the loop instead of in a finally clause:
\* it runs when the loop is left by break, not when an exception leaves it.
ClosedAfterLoop(reason) ==
    IF reason \in {"eof", "empty_payload"} THEN "closed" ELSE "open"

\* finally: connection.close().  It runs however the try block is left: by
\* break, by an exception the except clause caught, or by any other one.
Finally(reason) == "closed"

\* The handler's local variables after a step that stays in the loop; its
\* connection is open from accept() on.
Goto(c, label, len, pl, resp) ==
    /\ pc' = [pc EXCEPT ![c] = label]
    /\ connection' = [connection EXCEPT ![c] = "open"]
    /\ payload_length' = [payload_length EXCEPT ![c] = len]
    /\ payload' = [payload EXCEPT ![c] = pl]
    /\ response' = [response EXCEPT ![c] = resp]
    /\ UNCHANGED why

\* The handler leaves its loop (break, or an exception), the finally clause
\* closes the connection and handle_client returns: its locals are gone.
Close(c, reason) ==
    /\ pc' = [pc EXCEPT ![c] = "CLOSED"]
    /\ payload_length' = [payload_length EXCEPT ![c] = 0]
    /\ payload' = [payload EXCEPT ![c] = EmptyBody]
    /\ response' = [response EXCEPT ![c] = <<>>]
    /\ why' = [why EXCEPT ![c] = reason]
    /\ connection' = [connection EXCEPT ![c] = Finally(reason)]

\* Accept with the loop going on after the KeyboardInterrupt.
AcceptAnyway(c) ==
    /\ c \in backlog
    /\ backlog' = backlog \ {c}
    /\ Goto(c, "AWAIT_HEADER", 0, EmptyBody, <<>>)
    /\ UNCHANGED <<clientVars, mainVars, wireVars, client, data, holders, unanswered, lastMut>>

\* server_socket.accept() and thread.start(): a handler begins its loop.
Accept(c) ==
    /\ main_pc = "ACCEPT"
    /\ c \in backlog
    /\ backlog' = backlog \ {c}
    /\ Goto(c, "AWAIT_HEADER", 0, EmptyBody, <<>>)
    /\ UNCHANGED <<clientVars, mainVars, wireVars, client, data, holders, unanswered, lastMut>>

\* header = read_fully(connection, 4); payload_length = struct.unpack(...)
\* The client has sent a frame whose payload is n bytes long.
ReadHeader(c, n) ==
    /\ pc[c] = "AWAIT_HEADER"
    /\ \E b \in Frames(c) : PayloadLen(b) = n
    /\ Goto(c, "AWAIT_PAYLOAD", n, EmptyBody, <<>>)
    /\ UNCHANGED <<clientVars, mainVars, wireVars, backlog, client, data, holders, unanswered, lastMut>>

\* read_fully returns None: the peer closed the stream before the bytes came.
\* read_fully(connection, 0) returns without calling recv, so a payload of
\* length 0 cannot meet end of stream.
ReadEOF(c) ==
    /\ \/ pc[c] = "AWAIT_HEADER"
       \/ pc[c] = "AWAIT_PAYLOAD" /\ payload_length[c] > 0
    /\ Close(c, "eof")
    /\ UNCHANGED <<clientVars, mainVars, wireVars, backlog, client, data, holders, unanswered, lastMut>>

\* sock.recv raises (ConnectionResetError is caught, any other OSError is
\* not; the finally clause closes the connection either way).
ReadError(c) ==
    /\ \/ pc[c] = "AWAIT_HEADER"
       \/ pc[c] = "AWAIT_PAYLOAD" /\ payload_length[c] > 0
    /\ Close(c, "transport")
    /\ UNCHANGED <<clientVars, mainVars, wireVars, backlog, client, data, holders, unanswered, lastMut>>

\* Dispatch with the invalid-payload branch continuing the loop without the
\* sendall of line 76.
DispatchNoReply(b) ==
    IF InvalidFormat(Decode(b))
    THEN [to |-> "AWAIT_HEADER", resp |-> <<>>]
    ELSE IF Head(Decode(b).list).t # "str"
    THEN [to |-> "RAISE", resp |-> <<>>]
    ELSE LET branch == Route(Upper(Head(Decode(b).list).s), Tail(Decode(b).list))
         IN  IF branch = "PING" THEN [to |-> "RESPOND", resp |-> <<OK, PONG>>]
             ELSE IF branch = "UNKNOWN" THEN [to |-> "RESPOND", resp |-> <<ERR, UNKNOWN_COMMAND>>]
             ELSE [to |-> "LOCK_WAIT", resp |-> <<>>]

\* Lines 69-103 for a payload b that passed "if not payload": the label the
\* handler goes to and the response it has built (<<>> is None).
\*   decoding or validation fails  -> ['ERR', 'INVALID_PAYLOAD'], continue
\*   command_list[0] has no upper() -> AttributeError, not caught
\*   PING / no branch matches       -> the response of the branch
\*   SET, GET, DEL, EXISTS          -> the Store is called
Dispatch(b) ==
    IF InvalidFormat(Decode(b))
    THEN [to |-> "RESPOND", resp |-> <<ERR, INVALID_PAYLOAD>>]
    ELSE IF Head(Decode(b).list).t # "str"
    THEN [to |-> "RAISE", resp |-> <<>>]
    ELSE LET branch == Route(Upper(Head(Decode(b).list).s), Tail(Decode(b).list))
         IN  IF branch = "PING" THEN [to |-> "RESPOND", resp |-> <<OK, PONG>>]
             ELSE IF branch = "UNKNOWN" THEN [to |-> "RESPOND", resp |-> <<ERR, UNKNOWN_COMMAND>>]
             ELSE [to |-> "LOCK_WAIT", resp |-> <<>>]

\* Lines 65-103 once the payload read returned the whole payload b:
\* everything up to the next blocking call.
Process(c, b) ==
    /\ unanswered' = [unanswered EXCEPT ![c] = @ + 1]
    /\ IF NotPayload(b)
       THEN Close(c, "empty_payload")
       ELSE IF Dispatch(b).to = "RAISE"
       THEN Close(c, "exception")
       ELSE Goto(c, Dispatch(b).to, payload_length[c], b, Dispatch(b).resp)

\* payload = read_fully(connection, payload_length) returns the whole payload
\* b of a frame the client sent, in one step.
ReadPayload(c, b) ==
    /\ pc[c] = "AWAIT_PAYLOAD"
    /\ b \in Frames(c)
    /\ PayloadLen(b) = payload_length[c]
    /\ Process(c, b)
    /\ UNCHANGED <<clientVars, mainVars, wireVars, backlog, client, data, holders, lastMut>>

\* "with self._lock:" entered by the Store method the branch calls.
Acquire(c) ==
    /\ pc[c] = "LOCK_WAIT"
    /\ LockFree
    /\ holders' = holders \cup {c}
    /\ Goto(c, "IN_LOCK", payload_length[c], payload[c], response[c])
    /\ UNCHANGED <<clientVars, mainVars, wireVars, backlog, client, data, unanswered, lastMut>>

\* The lock taken with acquire() and released with release(), without a
\* "with" or a try/finally: an exception leaves it held.
RaiseHolding(c) ==
    /\ UNCHANGED holders
    /\ Close(c, "exception")
    /\ UNCHANGED <<data, lastMut>>

\* An exception inside "with self._lock": the lock is released, the exception
\* leaves handle_client through its finally clause.
Raise(c) ==
    /\ holders' = holders \ {c}
    /\ Close(c, "exception")
    /\ UNCHANGED <<data, lastMut>>

\* The Store method returning with the lock still held.
ReturnHolding(c, resp) ==
    /\ UNCHANGED holders
    /\ Goto(c, "RESPOND", payload_length[c], payload[c], resp)

\* The Store method returns: the lock is released and handle_client builds
\* its response.
Return(c, resp) ==
    /\ holders' = holders \ {c}
    /\ Goto(c, "RESPOND", payload_length[c], payload[c], resp)

\* The statements under the lock of set, get, exists, and delete's test
\* "if key in self._data".
StoreOp(c) ==
    /\ pc[c] = "IN_LOCK"
    /\ LET key == Args(c)[1]
           branch == Branch(c)
       IN  IF ~Hashable(key) THEN Raise(c)
           ELSE CASE branch = "SET" ->
                       /\ data' = DictSet(data, key, Args(c)[2])
                       /\ lastMut' = Noted(key, Mutation("SET", c, Args(c)[2]))
                       /\ Return(c, <<OK>>)
                  [] branch = "GET" ->
                       /\ UNCHANGED <<data, lastMut>>
                       /\ Return(c, GetResponse(DictGet(data, key)))
                  [] branch = "EXISTS" ->
                       /\ UNCHANGED <<data, lastMut>>
                       /\ Return(c, <<OK, JNum(IF DictHas(data, key) THEN 1 ELSE 0)>>)
                  [] OTHER ->
                       /\ UNCHANGED <<data, lastMut>>
                       /\ IF DictHas(data, key)
                          THEN /\ Goto(c, "DEL_REMOVE", payload_length[c], payload[c], response[c])
                               /\ UNCHANGED holders
                          ELSE Return(c, <<OK, JNum(0)>>)
    /\ UNCHANGED <<clientVars, mainVars, wireVars, backlog, client, unanswered>>

\* delete's "del self._data[key]; return 1" (KeyError if the key is gone).
DelRemove(c) ==
    /\ pc[c] = "DEL_REMOVE"
    /\ LET key == Args(c)[1]
       IN  IF DictHas(data, key)
           THEN /\ data' = DictDel(data, key)
                /\ lastMut' = Noted(key, Mutation("DEL", c, JNull))
                /\ Return(c, <<OK, JNum(1)>>)
           ELSE Raise(c)
    /\ UNCHANGED <<clientVars, mainVars, wireVars, backlog, client, unanswered>>

\* connection.sendall(pack_message(response)) succeeds; the loop continues.
\* The locals are dead from here on: payload_length, payload and response
\* are each assigned (lines 61, 64, 75 or 84) before they are read again, so
\* the handler is in the state it was in when it first awaited a header.
Send(c) ==
    /\ pc[c] = "RESPOND"
    /\ unanswered' = [unanswered EXCEPT ![c] = @ - 1]
    /\ Goto(c, "AWAIT_HEADER", 0, EmptyBody, <<>>)
    /\ UNCHANGED <<clientVars, mainVars, wireVars, backlog, client, data, holders, lastMut>>

\* A failed write of the response to a SET that takes the key out again.
SendErrorUndo(c) ==
    /\ pc[c] = "RESPOND"
    /\ Close(c, "transport")
    /\ data' = IF Branch(c) = "SET" THEN DictDel(data, Args(c)[1]) ELSE data
    /\ UNCHANGED <<clientVars, mainVars, wireVars, backlog, client, holders, unanswered, lastMut>>

\* connection.sendall raises (BrokenPipeError, ConnectionResetError or another
\* OSError): the response is not delivered, the connection is closed.
SendError(c) ==
    /\ pc[c] = "RESPOND"
    /\ Close(c, "transport")
    /\ UNCHANGED <<clientVars, mainVars, wireVars, backlog, client, data, holders, unanswered, lastMut>>

\* KeyboardInterrupt in the main thread: the accept loop is left, the finally
\* clause closes the listening socket, main returns.  The handler threads
\* are not touched.
Shutdown ==
    /\ main_pc = "ACCEPT"
    /\ main_pc' = "RETURNED"
    /\ server_socket' = "closed"
    /\ UNCHANGED <<clientVars, wireVars, backlog, client, pc, payload_length, payload, response, data,
                   holders, why, unanswered, lastMut, connection>>

\* main() was the last statement of the program: the interpreter exits.  The
\* handler threads are daemon threads (thread.daemon = True): they end where
\* they are, without running their finally clause, and the process's sockets
\* are closed with it.
Exit ==
    /\ main_pc = "RETURNED"
    /\ main_pc' = "EXITED"
    /\ pc' = [c \in Conns |-> IF pc[c] \in {"NONE", "CLOSED"} THEN pc[c] ELSE "KILLED"]
    /\ why' = [c \in Conns |-> IF pc[c] \in {"NONE", "CLOSED"} THEN why[c] ELSE "exit"]
    /\ connection' = [c \in Conns |-> IF connection[c] = "open" THEN "closed" ELSE connection[c]]
    /\ payload_length' = [c \in Conns |-> 0]
    /\ payload' = [c \in Conns |-> EmptyBody]
    /\ response' = [c \in Conns |-> <<>>]
    /\ holders' = {}
    /\ UNCHANGED <<clientVars, server_socket, wireVars, backlog, client, data, unanswered, lastMut>>

\* ------------------------------------------------------ read_fully, by bytes
\* What read_fully returns: None, or the bytes it read.
None == [none |-> TRUE, bytes |-> <<>>]
Some(bytes) == [none |-> FALSE, bytes |-> bytes]

\* recv asked for the whole length on every pass of the loop.
WantLength(length, bytes) == length

\* sock.recv(length - len(data)): the most bytes the call may return
Want(length, bytes) == length - Len(bytes)

\* read_fully returning the bytes it has when the stream ends.
EndOfStreamPartial(bytes) == Some(bytes)

\* if not packet: return None
EndOfStream(bytes) == None

\* "if not header", "if not payload": true of None and of no bytes
Not(v) == v.none \/ v.bytes = <<>>

\* The length the read in progress was called with.
Length(c) == IF pc[c] = "AWAIT_HEADER" THEN 4 ELSE payload_length[c]

\* read_fully returns v to handle_client, which goes on to its next blocking
\* call: after the header read (lines 58-64), after the payload read (65-103).
\* struct.unpack raises struct.error for a header that is not 4 bytes long.
Returned(c, v) ==
    IF pc[c] = "AWAIT_HEADER"
    THEN /\ UNCHANGED unanswered
         /\ IF Not(v) THEN Close(c, "eof")
            ELSE IF Len(v.bytes) # 4 THEN Close(c, "exception")
            ELSE Goto(c, "AWAIT_PAYLOAD", UnpackU32(v.bytes), EmptyBody, <<>>)
    ELSE IF v.none
         THEN UNCHANGED unanswered /\ Close(c, "eof")
         ELSE Process(c, Parse(v.bytes))

\* The peer's connect() succeeded (the listener's queue holds the connection
\* or a handler has it) and the server has not closed the connection.
Connected(c) == c \in backlog \/ connection[c] = "open"

\* The peer writes the frame of payload b to the socket (sendall).
PeerSend(c, b) ==
    /\ Connected(c)
    /\ ~fin[c]
    /\ Len(sent[c]) < MaxInFlight
    /\ wire' = [wire EXCEPT ![c] = @ \o pack_message(b)]
    /\ sent' = [sent EXCEPT ![c] = Append(@, Bytes(b))]
    /\ UNCHANGED <<clientVars, pc, payload_length, payload, response, why, connection, unanswered,
                   mainVars, fin, read_data, backlog, client, data, holders, lastMut>>

\* The peer writes the first k bytes of a frame (none, a part of the header,
\* the header and a part of the payload) and closes the stream.
PeerClose(c, b, k) ==
    /\ Connected(c)
    /\ ~fin[c]
    /\ k < Len(pack_message(b))
    /\ wire' = [wire EXCEPT ![c] = @ \o SubSeq(pack_message(b), 1, k)]
    /\ fin' = [fin EXCEPT ![c] = TRUE]
    /\ UNCHANGED <<clientVars, pc, payload_length, payload, response, why, connection, unanswered,
                   mainVars, read_data, sent, backlog, client, data, holders, lastMut>>

\* One pass of read_fully's loop in which recv returns k bytes: they extend
\* data, and read_fully returns when it has the length it was called with.
Recv(c, k) ==
    /\ pc[c] \in {"AWAIT_HEADER", "AWAIT_PAYLOAD"}
    /\ Len(read_data[c]) < Length(c)
    /\ k \in 1..Want(Length(c), read_data[c])
    /\ k <= Len(wire[c])
    /\ wire' = [wire EXCEPT ![c] = SubSeq(@, k + 1, Len(@))]
    /\ LET bytes == read_data[c] \o SubSeq(wire[c], 1, k)
       IN  IF Len(bytes) < Length(c)
           THEN /\ read_data' = [read_data EXCEPT ![c] = bytes]
                /\ UNCHANGED <<pc, payload_length, payload, response, why, connection,
                               unanswered, sent>>
           ELSE /\ read_data' = [read_data EXCEPT ![c] = <<>>]
                /\ sent' = [sent EXCEPT ![c] =
                               IF pc[c] = "AWAIT_PAYLOAD" /\ @ # <<>> THEN Tail(@) ELSE @]
                /\ Returned(c, Some(bytes))
    /\ UNCHANGED <<clientVars, mainVars, fin, backlog, client, data, holders, lastMut>>

\* read_fully(connection, 0): the loop is not entered, no recv is made, the
\* empty bytearray is returned.
RecvNothing(c) ==
    /\ pc[c] = "AWAIT_PAYLOAD"
    /\ payload_length[c] = 0
    /\ sent' = [sent EXCEPT ![c] = IF @ # <<>> THEN Tail(@) ELSE @]
    /\ Returned(c, Some(<<>>))
    /\ UNCHANGED <<clientVars, mainVars, wire, fin, read_data, backlog, client, data, holders, lastMut>>

\* recv returns b'': the peer closed the stream and every byte it sent has
\* been received.  The bytes read_fully had collected are handed to nobody
\* (read_data keeps them, as the record of what was dropped).
RecvEOF(c) ==
    /\ pc[c] \in {"AWAIT_HEADER", "AWAIT_PAYLOAD"}
    /\ Len(read_data[c]) < Length(c)
    /\ wire[c] = <<>>
    /\ fin[c]
    /\ read_data' = [read_data EXCEPT ![c] = IF EndOfStream(@).none THEN @ ELSE <<>>]
    /\ Returned(c, EndOfStream(read_data[c]))
    /\ UNCHANGED <<clientVars, mainVars, wire, fin, sent, backlog, client, data, holders, lastMut>>

\* sock.recv raises while bytes of the frame are outstanding.
RecvError(c) ==
    /\ ReadError(c)
    /\ Len(read_data[c]) < Length(c)

\* -------------------------------------------------------------- SSMPClient
\* The requests the API sends: ping(), get("k"), set("k", "v"), delete("k"),
\* exists("k").
ApiBodies == {Req(<<JStr(PING)>>)} \cup KvBodies(KeyOf(1), ValOf(2))

\* Frames the client's peer may answer with: responses of the server, and a
\* frame without payload.
PeerBodies == { Req(<<OK>>), Req(<<OK, JNum(1)>>), Req(<<ERR, NOT_FOUND>>), EmptyBody }

\* json.loads(payload.decode('utf-8')) of the payloads the peer can send.
RespOf == [x \in {Bytes(b) : b \in PeerBodies \ {EmptyBody}} |->
              CHOOSE b \in PeerBodies : Bytes(b) = x]
Loads(bytes) ==
    IF bytes \in DOMAIN RespOf THEN Returns(RespOf[bytes].list) ELSE Raises("JSONDecodeError")

\* The exception classes that are ConnectionError or subclasses of it.
ConnectionErrors == {"ConnectionError", "BrokenPipeError", "ConnectionResetError"}

\* socket.sendall on a socket that is not connected: the class of the OSError
\* depends on the errno the platform gives, EPIPE (BrokenPipeError, Linux) or
\* ENOTCONN (a plain OSError).
SendallUnconnected == {"BrokenPipeError", "OSError"}

\* socket.sendall on a connection the peer has left.
SendallBroken == {"BrokenPipeError", "ConnectionResetError"}

\* No call of the client is in progress (the client is used sequentially).
Idle == cpc = "idle"

\* connect(): close() if there is a socket; a new socket is assigned to
\* self._socket, then connected.  When connect raises (ok = FALSE), the
\* exception propagates and self._socket keeps the unconnected socket.
connect(ok) ==
    /\ Idle
    /\ socket' = IF ok THEN "connected" ELSE "unconnected"
    /\ out' = <<>>
    /\ inbox' = <<>>
    /\ peer_fin' = FALSE
    /\ result' = NoResult
    /\ UNCHANGED <<cpc, cdata, clength, serverVars, mainVars, wireVars>>

\* close(): if self._socket: close it and set self._socket = None
close ==
    /\ Idle
    /\ socket # "None"
    /\ socket' = "None"
    /\ out' = <<>>
    /\ inbox' = <<>>
    /\ peer_fin' = FALSE
    /\ result' = NoResult
    /\ UNCHANGED <<cpc, cdata, clength, serverVars, mainVars, wireVars>>

\* _send_request up to its first read: the test of self._socket, then
\* sendall(self._pack_message(command_list)).
SendRequest(b) ==
    /\ Idle
    /\ IF socket = "None"
       THEN /\ result' = Raises("ConnectionError")
            /\ UNCHANGED <<cpc, out>>
       ELSE IF socket = "unconnected"
       THEN /\ \E e \in SendallUnconnected : result' = Raises(e)
            /\ UNCHANGED <<cpc, out>>
       ELSE \/ /\ out' = pack_message(b)
               /\ cpc' = "read_header"
               /\ result' = NoResult
            \/ /\ peer_fin
               /\ \E e \in SendallBroken : result' = Raises(e)
               /\ UNCHANGED <<cpc, out>>
    /\ UNCHANGED <<socket, inbox, peer_fin, cdata, clength, serverVars, mainVars, wireVars>>

\* The peer answers the request with the frame of r.
PeerReply(r) ==
    /\ cpc = "read_header"
    /\ inbox = <<>>
    /\ cdata = <<>>
    /\ ~peer_fin
    /\ inbox' = pack_message(r)
    /\ UNCHANGED <<socket, cpc, out, peer_fin, cdata, clength, result,
                   serverVars, mainVars, wireVars>>

\* The peer writes the first k bytes of the frame of r and closes the stream.
PeerCut(r, k) ==
    /\ cpc = "read_header"
    /\ inbox = <<>>
    /\ cdata = <<>>
    /\ ~peer_fin
    /\ k < Len(pack_message(r))
    /\ inbox' = SubSeq(pack_message(r), 1, k)
    /\ peer_fin' = TRUE
    /\ UNCHANGED <<socket, cpc, out, cdata, clength, result, serverVars, mainVars, wireVars>>

\* The length _read_fully was called with.
CLength == IF cpc = "read_header" THEN 4 ELSE clength

\* _read_fully returned the payload: json.loads, return response.
Finish(bytes) ==
    /\ result' = Loads(bytes)
    /\ cpc' = "idle"
    /\ cdata' = <<>>
    /\ clength' = 0

\* One pass of _read_fully's loop in which recv returns k bytes.
ClientRecv(k) ==
    /\ cpc \in {"read_header", "read_payload"}
    /\ Len(cdata) < CLength
    /\ k \in 1..(CLength - Len(cdata))
    /\ k <= Len(inbox)
    /\ inbox' = SubSeq(inbox, k + 1, Len(inbox))
    /\ LET bytes == cdata \o SubSeq(inbox, 1, k)
       IN  IF Len(bytes) < CLength
           THEN cdata' = bytes /\ UNCHANGED <<cpc, clength, result>>
           ELSE IF cpc = "read_header"
           THEN /\ clength' = UnpackU32(bytes)
                /\ cpc' = "read_payload"
                /\ cdata' = <<>>
                /\ UNCHANGED result
           ELSE Finish(bytes)
    /\ UNCHANGED <<socket, out, peer_fin, serverVars, mainVars, wireVars>>

\* _read_fully(0): the loop is not entered; json.loads of no text raises.
ClientRecvNothing ==
    /\ cpc = "read_payload"
    /\ clength = 0
    /\ Finish(<<>>)
    /\ UNCHANGED <<socket, out, inbox, peer_fin, serverVars, mainVars, wireVars>>

\* recv returns b'': raise ConnectionError("Socket connection broken")
ClientEOF ==
    /\ cpc \in {"read_header", "read_payload"}
    /\ Len(cdata) < CLength
    /\ inbox = <<>>
    /\ peer_fin
    /\ result' = Raises("ConnectionError")
    /\ cpc' = "idle"
    /\ cdata' = <<>>
    /\ clength' = 0
    /\ UNCHANGED <<socket, out, inbox, peer_fin, serverVars, mainVars, wireVars>>

\* recv raises ConnectionResetError: the connection is gone, and with it the
\* bytes that had not been received.
ClientRecvError ==
    /\ cpc \in {"read_header", "read_payload"}
    /\ Len(cdata) < CLength
    /\ result' = Raises("ConnectionResetError")
    /\ cpc' = "idle"
    /\ cdata' = <<>>
    /\ clength' = 0
    /\ inbox' = <<>>
    /\ peer_fin' = TRUE
    /\ UNCHANGED <<socket, out, serverVars, mainVars, wireVars>>

Lengths == {PayloadLen(b) : b \in AnyBodies \cup CaseBodies}

Next ==
    \E c \in Conns :
        \/ Accept(c)
        \/ \E n \in Lengths : ReadHeader(c, n)
        \/ ReadEOF(c)
        \/ ReadError(c)
        \/ \E b \in Frames(c) : ReadPayload(c, b)
        \/ Acquire(c)
        \/ StoreOp(c)
        \/ DelRemove(c)
        \/ Send(c)
        \/ SendError(c)

Spec == Init /\ [][Next]_vars

SpecKv == InitKv /\ [][Next]_vars

\* The server just started; the first connection is a client that also sends
\* faulty frames, the others use the client API, all on the same key.
InitMain ==
    /\ InitState
    /\ backlog = Conns
    /\ client = [c \in Conns |-> IF c = 1 THEN FaultClient(KeyOf(0)) ELSE KvClient(KeyOf(0))]

\* The server with its main thread's end.
NextMain ==
    \/ Next
    \/ Shutdown
    \/ Exit

SpecMain == InitMain /\ [][NextMain]_vars

\* The handler threads under a fair scheduler, while the process lives: a
\* thread that is inside a Store method goes on running, and a thread blocked
\* in the lock's acquire gets the lock if the lock is free again and again.
Fairness ==
    \A c \in Conns :
        /\ SF_vars(Acquire(c))
        /\ WF_vars(StoreOp(c))
        /\ WF_vars(DelRemove(c))

SpecFair == InitMain /\ [][Next]_vars /\ Fairness

\* The server just started; a client that varies the case of the command
\* names is about to connect.
InitCase ==
    /\ InitState
    /\ backlog = {1}
    /\ client = [c \in Conns |-> CaseClient]

SpecCase == InitCase /\ [][Next]_vars

\* An SSMPClient object was created; no server of this model is involved.
InitClient ==
    /\ InitState
    /\ backlog = {}
    /\ client = [c \in Conns |-> AnyClient]

\* An SSMPClient used by a sequential program, against any peer.
NextClient ==
    \/ \E ok \in BOOLEAN : connect(ok)
    \/ close
    \/ \E b \in ApiBodies : SendRequest(b)
    \/ \E r \in PeerBodies : PeerReply(r)
    \/ \E r \in PeerBodies : \E k \in 0..Len(pack_message(r)) : PeerCut(r, k)
    \/ \E k \in 1..Len(inbox) : ClientRecv(k)
    \/ ClientRecvNothing
    \/ ClientEOF
    \/ ClientRecvError

SpecClient == InitClient /\ [][NextClient]_vars

\* The server just started; one peer that writes bytes is about to connect.
InitWire ==
    /\ InitState
    /\ backlog = {1}
    /\ client = [c \in Conns |-> WireClient]

\* The handler with its two reads taken recv by recv.
NextWire ==
    \E c \in Conns :
        \/ Accept(c)
        \/ \E b \in WireBodies : PeerSend(c, b)
        \/ \E b \in WireBodies : \E k \in 0..Len(pack_message(b)) : PeerClose(c, b, k)
        \/ \E k \in 1..Len(wire[c]) : Recv(c, k)
        \/ RecvNothing(c)
        \/ RecvEOF(c)
        \/ RecvError(c)
        \/ Acquire(c)
        \/ StoreOp(c)
        \/ DelRemove(c)
        \/ Send(c)
        \/ SendError(c)

SpecWire == InitWire /\ [][NextWire]_vars

\* ================================================================= claims
\* What the claims call a frame's content, in the claims' own terms.
\* A malformed payload: not JSON, or JSON that is not an array, or "[]".
Malformed(b) == b.raw # "list" \/ b.list = <<>>
\* A non-empty array with a token that is not a string.
NonStringToken(b) ==
    b.raw = "list" /\ b.list # <<>> /\ \E i \in DOMAIN b.list : b.list[i].t # "str"
\* A valid request: a non-empty array of strings.
ValidRequest(b) ==
    b.raw = "list" /\ b.list # <<>> /\ \A i \in DOMAIN b.list : b.list[i].t = "str"
\* The command table: the arity of each command name.
ArityOf(name) ==
    CASE name = PING -> 0
      [] name = SET -> 2
      [] name = GET -> 1
      [] name = DEL -> 1
      [] name = EXISTS -> 1
\* A valid request that names no command of the table, or has the wrong
\* number of arguments for the command it names.
UnknownRequest(b) ==
    LET name == Upper(Head(b.list).s)
    IN  \/ name \notin {PING, SET, GET, DEL, EXISTS}
        \/ Len(b.list) - 1 # ArityOf(name)

\* C1: every completely received frame whose payload is malformed (any
\* length, 0 included) is answered ["ERR","INVALID_PAYLOAD"], with the Store
\* unchanged and the connection still open.
C1_MalformedAnswered ==
    [][\A c \in Conns : \A b \in AnyBodies :
          (Malformed(b) /\ ReadPayload(c, b))
             => /\ pc'[c] = "RESPOND"
                /\ response'[c] = <<ERR, INVALID_PAYLOAD>>
                /\ data' = data]_vars

\* C2: every request that decodes to a non-empty list with a token that is
\* not a string is answered ["ERR","INVALID_PAYLOAD"], no Store operation is
\* started and the connection stays open.
C2_NonStringRejected ==
    [][\A c \in Conns : \A b \in AnyBodies :
          (NonStringToken(b) /\ ReadPayload(c, b))
             => /\ pc'[c] = "RESPOND"
                /\ response'[c] = <<ERR, INVALID_PAYLOAD>>]_vars

\* C3: every valid request whose upper-cased first token is no command of the
\* table, or whose argument count is not the command's arity (PING with
\* arguments included), is answered ["ERR","UNKNOWN_COMMAND"] and leaves the
\* Store as it was.
C3_UnknownCommand ==
    [][\A c \in Conns : \A b \in AnyBodies :
          (ValidRequest(b) /\ UnknownRequest(b) /\ ReadPayload(c, b))
             => /\ pc'[c] = "RESPOND"
                /\ response'[c] = <<ERR, UNKNOWN_COMMAND>>
                /\ data' = data]_vars

\* C4: on every connection requests and responses alternate.  The handler is
\* reading a frame only when every frame it read has been answered; it holds
\* a response to write only when exactly one frame is unanswered; it never
\* has written more responses than it has read frames, and never is more
\* than one response behind.
C4_Alternation ==
    \A c \in Conns :
        /\ unanswered[c] \in {0, 1}
        /\ pc[c] \in {"NONE", "AWAIT_HEADER", "AWAIT_PAYLOAD"} => unanswered[c] = 0
        /\ pc[c] \in {"LOCK_WAIT", "IN_LOCK", "DEL_REMOVE", "RESPOND"} => unanswered[c] = 1
        /\ pc[c] = "RESPOND" => response[c] # <<>>
        /\ pc[c] \in {"LOCK_WAIT", "IN_LOCK", "DEL_REMOVE"} => response[c] = <<>>

\* C4's case: a handler whose SET the Store has executed (so it has read
\* that request) has written its response and is reading the payload of the
\* next request.
C4_Witness ==
    \E c \in Conns :
        /\ pc[c] = "AWAIT_PAYLOAD"
        /\ \E k \in Keys : LastMut(k).op = "SET" /\ LastMut(k).by = c
        /\ unanswered[c] = 0

\* C5: a handler is CLOSED only by end of stream or a transport failure;
\* every completely received frame is answered and the loop goes on.
C5_ClosedOnlyByEofOrTransport ==
    \A c \in Conns : pc[c] = "CLOSED" => why[c] \in {"eof", "transport"}

\* ------------------------------------------------------- claims, the Store
\* The key and value of the request a handler is processing.
KeyArg(c) == Args(c)[1]
\* The request a handler has in hand passed validation and took this branch
\* of the if/elif chain.
Handling(c, branch) ==
    /\ ~InvalidFormat(Decode(payload[c]))
    /\ Head(CommandList(c)).t = "str"
    /\ Branch(c) = branch
\* A handler executes the last statement of a Store operation: the method
\* returns and the handler has its response.
Completes(c, branch) ==
    /\ pc[c] \in {"IN_LOCK", "DEL_REMOVE"}
    /\ Branch(c) = branch
    /\ pc'[c] = "RESPOND"
\* The Store operations as single, indivisible steps from dict d to dict e
\* with response r (spec 4.2 and the table of 4.3).
OnlyKeyChanged(d, e, key) ==
    /\ (DOMAIN e) \ {key} = (DOMAIN d) \ {key}
    /\ \A x \in (DOMAIN e) \ {key} : e[x] = d[x]
AtomicOp(branch, args, d, e, r) ==
    CASE branch = "SET" ->
            /\ OnlyKeyChanged(d, e, args[1])
            /\ args[1] \in DOMAIN e /\ e[args[1]] = args[2]
            /\ r = <<OK>>
      [] branch = "GET" ->
            /\ e = d
            /\ r = IF args[1] \in DOMAIN d THEN <<OK, d[args[1]]>> ELSE <<ERR, NOT_FOUND>>
      [] branch = "EXISTS" ->
            /\ e = d
            /\ r = <<OK, JNum(IF args[1] \in DOMAIN d THEN 1 ELSE 0)>>
      [] branch = "DEL" ->
            IF args[1] \in DOMAIN d
            THEN /\ OnlyKeyChanged(d, e, args[1])
                 /\ args[1] \notin DOMAIN e
                 /\ r = <<OK, JNum(1)>>
            ELSE e = d /\ r = <<OK, JNum(0)>>

\* C6: Store operations of concurrent handlers are atomic.  At most one
\* handler is inside an operation; while a handler is inside one, no step of
\* another handler changes the dict; a delete that found its key still finds
\* it when it removes it; every operation ends by returning (never by an
\* exception), and what it returns and leaves in the dict is what the
\* indivisible operation does on the dict as it is at that step; and nothing
\* but the completion of an operation changes the dict.  So the operations
\* take effect one after another, in the order of their completion steps.
C6_StoreAtomic ==
    [][/\ Cardinality(holders') <= 1
       /\ \A c \in Conns : (c \in holders /\ pc'[c] = pc[c]) => data' = data
       /\ \A c \in Conns : pc'[c] = "DEL_REMOVE" => KeyArg(c) \in DOMAIN data'
       /\ \A c \in Conns :
             (pc[c] \in {"IN_LOCK", "DEL_REMOVE"} /\ pc'[c] # pc[c])
                => \/ /\ pc'[c] = "DEL_REMOVE"
                      /\ data' = data
                   \/ /\ pc'[c] = "RESPOND"
                      /\ AtomicOp(Branch(c), Args(c), data, data', response'[c])
       /\ data' # data => \E c \in holders : Completes(c, Branch(c))
      ]_vars

\* C6's case: a handler is between delete's membership test and its removal
\* while another handler waits for the lock with a SET or DEL of the same key.
C6_Witness ==
    \E c, d \in Conns :
        /\ c # d
        /\ pc[c] = "DEL_REMOVE"
        /\ holders = {c}
        /\ pc[d] = "LOCK_WAIT"
        /\ Branch(d) \in {"SET", "DEL"}
        /\ KeyArg(d) = KeyArg(c)

\* C7: connections that SET and GET their own keys.  A connection whose key
\* no other connection uses is the only one to change that key, and its GET
\* after its own SET returns its own value.  For a key several connections
\* write, a GET returns ["OK", v] exactly when the last change of the key is
\* a SET, and v is then the value of the connection that made that SET: one
\* of the values SET for that key, never another one.
C7_ConcurrentSetGet ==
    [][\A c \in Conns :
          Completes(c, "GET") =>
             LET k == KeyArg(c)
                 last == LastMut(k)
             IN  /\ (\A d \in Conns \ {c} : client[d].key # k) => last.by \in {0, c}
                 /\ last.op = "SET"
                      => /\ client[last.by].key = k
                         /\ response'[c] = <<OK, ValOf(last.by)>>
                 /\ last.op # "SET" => response'[c] = <<ERR, NOT_FOUND>>
      ]_vars

\* C7's case: two connections use the same key, the other one made the last
\* SET of it and is idle, its SET answered, and this connection's GET returns
\* the other's value.
C7_Witness ==
    \E c, d \in Conns :
        /\ c # d
        /\ client[c].key = client[d].key
        /\ pc[d] = "AWAIT_HEADER"
        /\ pc[c] = "RESPOND"
        /\ Handling(c, "GET")
        /\ response[c] = <<OK, ValOf(d)>>
        /\ LastMut(KeyArg(c)).by = d

\* C8: read-after-write.  A GET of a string key whose last change is a SET
\* of a string value v (no SET or DEL of the key executed since) returns
\* ["OK", v], the empty string included as key and as value, and leaves the
\* Store and the key's history as they were, so that repeating it returns
\* the same.
C8_ReadAfterWrite ==
    [][\A c \in Conns :
          (Completes(c, "GET") /\ KeyArg(c).t = "str"
              /\ LastMut(KeyArg(c)).op = "SET" /\ LastMut(KeyArg(c)).val.t = "str")
             => /\ response'[c] = <<OK, LastMut(KeyArg(c)).val>>
                /\ data' = data
                /\ lastMut' = lastMut
      ]_vars

\* C8's case: a connection whose SET of the empty key to the empty value was
\* answered (it went on to its next request) has its GET of that key
\* answered with the empty value.
C8_Witness ==
    \E c \in Conns :
        /\ pc[c] = "RESPOND"
        /\ Handling(c, "GET")
        /\ KeyArg(c) = KeyOf(0)
        /\ LastMut(KeyArg(c)) = Mutation("SET", c, JStr(<<>>))
        /\ response[c] = <<OK, JStr(<<>>)>>

\* C9: delete.  DEL of an absent key returns ["OK", 0] and leaves the Store
\* unchanged; DEL of a present key goes on to remove it, returns ["OK", 1]
\* and removes that key only; and while the last change of a key is a DEL,
\* EXISTS of it returns ["OK", 0] and another DEL of it returns ["OK", 0].
C9_DeleteSemantics ==
    [][\A c \in Conns :
          /\ (pc[c] = "IN_LOCK" /\ Branch(c) = "DEL" /\ KeyArg(c) \in Keys /\ pc'[c] # pc[c])
                => IF KeyArg(c) \in DOMAIN data
                   THEN pc'[c] = "DEL_REMOVE" /\ data' = data
                   ELSE pc'[c] = "RESPOND" /\ response'[c] = <<OK, JNum(0)>> /\ data' = data
          /\ (pc[c] = "DEL_REMOVE" /\ pc'[c] # pc[c])
                => /\ pc'[c] = "RESPOND"
                   /\ response'[c] = <<OK, JNum(1)>>
                   /\ KeyArg(c) \notin DOMAIN data'
                   /\ OnlyKeyChanged(data, data', KeyArg(c))
          /\ (Completes(c, "EXISTS") /\ LastMut(KeyArg(c)).op = "DEL")
                => response'[c] = <<OK, JNum(0)>>
          /\ (Completes(c, "DEL") /\ pc[c] = "IN_LOCK" /\ LastMut(KeyArg(c)).op = "DEL")
                => response'[c] = <<OK, JNum(0)>>
      ]_vars

\* C9's case: a second DEL of a key that was deleted has returned 0, while
\* another key is still in the Store.
C9_Witness ==
    \E c \in Conns :
        /\ pc[c] = "RESPOND"
        /\ Handling(c, "DEL")
        /\ response[c] = <<OK, JNum(0)>>
        /\ LastMut(KeyArg(c)).op = "DEL"
        /\ DOMAIN data # {}

\* C10: not found.  GET of a string key that is absent from the Store (never
\* set, or deleted) returns ["ERR","NOT_FOUND"] and leaves the Store
\* unchanged; the handler does not fail, and after writing that response it
\* awaits the next header (unless the write itself fails).
C10_NotFound ==
    [][\A c \in Conns :
          /\ (pc[c] = "IN_LOCK" /\ Branch(c) = "GET" /\ KeyArg(c) \in Keys
                 /\ KeyArg(c) \notin DOMAIN data /\ pc'[c] # pc[c])
                => /\ pc'[c] = "RESPOND"
                   /\ response'[c] = <<ERR, NOT_FOUND>>
                   /\ data' = data
          /\ (pc[c] = "RESPOND" /\ response[c] = <<ERR, NOT_FOUND>> /\ pc'[c] # pc[c])
                => \/ pc'[c] = "AWAIT_HEADER"
                   \/ pc'[c] = "CLOSED" /\ why'[c] = "transport"
      ]_vars

\* C10's case: the GET of a key that was set and then deleted has its
\* response NOT_FOUND ready to be written.
C10_Witness ==
    \E c \in Conns :
        /\ pc[c] = "RESPOND"
        /\ Handling(c, "GET")
        /\ KeyArg(c) \in Keys
        /\ LastMut(KeyArg(c)).op = "DEL"
        /\ response[c] = <<ERR, NOT_FOUND>>

\* ------------------------------------------------------ claims, the framing
IsPrefix(p, q) == Len(p) <= Len(q) /\ SubSeq(q, 1, Len(p)) = p
\* The bytes of a sequence of frames, given their payloads.
RECURSIVE Stream(_)
Stream(payloads) ==
    IF payloads = <<>> THEN <<>>
    ELSE PackU32(Len(Head(payloads))) \o Head(payloads) \o Stream(Tail(payloads))
\* The bytes of the stream from the start of the frame the handler is
\* reading: what it has taken of that frame, then what recv has not returned.
Unread(c) ==
    IF pc[c] = "AWAIT_PAYLOAD"
    THEN PackU32(payload_length[c]) \o read_data[c] \o wire[c]
    ELSE read_data[c] \o wire[c]
\* The handler is at a frame boundary of the stream the peer wrote: what is
\* unread is the frames in flight, followed (once the peer has closed) by the
\* beginning of a frame.
Framed(c) ==
    pc[c] # "CLOSED" =>
        /\ IsPrefix(Stream(sent[c]), Unread(c))
        /\ ~fin[c] => Unread(c) = Stream(sent[c])
        /\ \E b \in WireBodies :
              IsPrefix(SubSeq(Unread(c), Len(Stream(sent[c])) + 1, Len(Unread(c))),
                       pack_message(b))

\* C11: framing errors.  When the peer has closed the stream and every byte
\* it sent has been received, a handler that is awaiting a header (with 0 to
\* 3 bytes of it) or awaiting a payload (with fewer bytes than announced) can
\* only close: it goes to CLOSED with its connection closed, counts no frame
\* and holds no response, and nothing of the Store changes.
C11_FramingErrors ==
    [][\A c \in Conns :
          (/\ pc[c] \in {"AWAIT_HEADER", "AWAIT_PAYLOAD"}
           /\ Len(read_data[c]) < Length(c)
           /\ fin[c]
           /\ wire[c] = <<>>
           /\ pc'[c] # pc[c])
             => /\ pc'[c] = "CLOSED"
                /\ connection'[c] = "closed"
                /\ unanswered'[c] = unanswered[c]
                /\ response'[c] = <<>>
                /\ data' = data
                /\ lastMut' = lastMut
                /\ holders' = holders]_vars

\* C11's case: after a SET was executed, the stream ended inside a frame, the
\* handler had some but not all of its bytes, and it closed on end of stream.
C11_Witness ==
    \E c \in Conns :
        /\ pc[c] = "CLOSED"
        /\ why[c] = "eof"
        /\ read_data[c] # <<>>
        /\ unanswered[c] = 0
        /\ DOMAIN data # {}

\* C12: guaranteed close.  However handle_client stops (end of stream at a
\* header or inside a payload, a transport error caught or not, an empty
\* payload, an exception while decoding or dispatching or inside the Store),
\* its connection is closed when it has stopped; and a handler whose
\* connection is closed stays stopped: it writes no response and reads no
\* frame.
C12_GuaranteedClose ==
    [][\A c \in Conns :
          /\ pc'[c] = "CLOSED" => connection'[c] = "closed"
          /\ connection[c] = "closed"
                => /\ pc'[c] = "CLOSED"
                   /\ connection'[c] = "closed"
                   /\ unanswered'[c] = unanswered[c]
                   /\ response'[c] = <<>>
      ]_vars

\* C12's case: a handler stopped by an exception nothing catches (a first
\* token without upper(), an unhashable key) after it had served a SET, and
\* its connection is closed.
C12_Witness ==
    \E c \in Conns :
        /\ pc[c] = "CLOSED"
        /\ why[c] = "exception"
        /\ connection[c] = "closed"
        /\ DOMAIN data # {}

\* C13: fault isolation.  The step by which a handler ends (end of stream,
\* transport error, empty payload, exception) changes nothing of the Store,
\* leaves the Store's lock free of that handler, changes no other handler's
\* state or connection, and leaves the listener, its socket and the pending
\* connections as they were, so that the accept loop goes on; and once a
\* handler has ended, every Store operation on a string key that another
\* handler has begun still returns and does what the indivisible operation
\* does.
C13_FaultIsolation ==
    [][\A c \in Conns :
          /\ (pc[c] # "CLOSED" /\ pc'[c] = "CLOSED")
                => /\ data' = data
                   /\ lastMut' = lastMut
                   /\ holders' = holders \ {c}
                   /\ \A d \in Conns \ {c} :
                         /\ pc'[d] = pc[d]
                         /\ connection'[d] = connection[d]
                         /\ payload'[d] = payload[d]
                         /\ response'[d] = response[d]
                         /\ unanswered'[d] = unanswered[d]
                   /\ main_pc' = main_pc
                   /\ server_socket' = server_socket
                   /\ backlog' = backlog
          /\ (pc[c] = "CLOSED" /\ main_pc = "ACCEPT")
                => \A d \in backlog : ENABLED Accept(d)
          /\ pc[c] = "CLOSED"
                => \A d \in Conns \ {c} :
                      (/\ pc[d] \in {"IN_LOCK", "DEL_REMOVE"}
                       /\ Hashable(KeyArg(d))
                       /\ pc'[d] \notin {pc[d], "KILLED"})
                         => \/ pc'[d] = "DEL_REMOVE" /\ data' = data
                            \/ /\ pc'[d] = "RESPOND"
                               /\ AtomicOp(Branch(d), Args(d), data, data', response'[d])
      ]_vars

\* C13's case: a handler ended by an exception raised inside a Store
\* operation or while dispatching; the lock is free, and another connection
\* has read the value the ended one had set.
C13_Witness ==
    \E c, d \in Conns :
        /\ c # d
        /\ pc[c] = "CLOSED"
        /\ why[c] = "exception"
        /\ holders = {}
        /\ pc[d] = "RESPOND"
        /\ Handling(d, "GET")
        /\ LastMut(KeyArg(d)) = Mutation("SET", c, ValOf(c))
        /\ response[d] = <<OK, ValOf(c)>>

\* C15: listener shutdown, as claimed.  Once the shutdown signal has reached
\* the accept loop no connection is accepted any more and the listening
\* socket is closed; and no handler is terminated: the handlers active at the
\* shutdown go on serving their connections.
C15_Shutdown ==
    [][main_pc # "ACCEPT"
          => /\ backlog' = backlog
             /\ server_socket = "closed"
             /\ \A c \in Conns : pc[c] \notin {"NONE", "CLOSED"} => pc'[c] # "KILLED"
      ]_vars

\* C15 amended: once the shutdown signal has reached the accept loop no
\* connection is accepted any more and the listening socket is closed; the
\* shutdown step itself changes no handler and no connection, and while the
\* process lives a handler that holds a response can write it; the handlers
\* are terminated by nothing but the exit of the process after main has
\* returned, which ends every handler that is still active, and after which
\* no handler takes a step.
C15_ShutdownUntilExit ==
    [][/\ main_pc # "ACCEPT"
          => /\ backlog' = backlog
             /\ server_socket = "closed"
       /\ (main_pc = "ACCEPT" /\ main_pc' # "ACCEPT")
          => /\ server_socket' = "closed"
             /\ pc' = pc
             /\ connection' = connection
             /\ response' = response
             /\ data' = data
       /\ main_pc = "RETURNED"
          => \A c \in Conns : pc[c] = "RESPOND" => ENABLED Send(c)
       /\ \A c \in Conns :
             (pc[c] # "KILLED" /\ pc'[c] = "KILLED")
                => /\ main_pc = "RETURNED"
                   /\ main_pc' = "EXITED"
                   /\ \A d \in Conns : pc'[d] \in {"NONE", "CLOSED", "KILLED"}
       /\ main_pc = "EXITED" => pc' = pc /\ data' = data
      ]_vars

\* C15's case: main has returned, the process has not exited yet; a
\* connection was never accepted, and a handler that was active at the
\* shutdown holds the response to a SET that the Store has executed.
C15_Witness ==
    \E c \in Conns :
        /\ main_pc = "RETURNED"
        /\ backlog # {}
        /\ pc[c] = "RESPOND"
        /\ Handling(c, "SET")
        /\ LastMut(KeyArg(c)).by = c

\* C14: client usage errors.  A call of ping/get/set/delete/exists on a
\* client without an established connection (never connected, closed, or
\* left by a connect() that failed) raises ConnectionError (or a subclass)
\* and sends no byte; and when the peer has closed the stream before the
\* whole response arrived, the call ends by raising ConnectionError, never
\* by returning.
C14_ClientUsageErrors ==
    [][/\ \A b \in ApiBodies :
             (socket # "connected" /\ SendRequest(b))
                => /\ result'.kind = "raise"
                   /\ result'.exc \in ConnectionErrors
                   /\ out' = <<>>
                   /\ cpc' = "idle"
       /\ (cpc # "idle" /\ peer_fin /\ cpc' = "idle")
             => /\ result'.kind = "raise"
                /\ result'.exc \in ConnectionErrors
      ]_vars

\* The command of the table that a first token names when case is ignored
\* ("" when it names none), and the number of arguments the table gives it.
NameOf(b) ==
    LET folded == Lower(Head(b.list).s)
    IN  CASE folded = Lower(PING) -> "PING"
          [] folded = Lower(SET) -> "SET"
          [] folded = Lower(GET) -> "GET"
          [] folded = Lower(DEL) -> "DEL"
          [] folded = Lower(EXISTS) -> "EXISTS"
          [] OTHER -> ""
TableArity(name) == IF name = "PING" THEN 0 ELSE IF name = "SET" THEN 2 ELSE 1

\* C16: command names are case-insensitive.  A valid request whose first
\* token is a command of the table in any spelling of upper and lower case,
\* with the command's number of arguments, is answered and executed as the
\* table says for that command: PING answers ["OK","PONG"] at once, the others
\* call the Store, and the operation done and the response are those of the
\* command on the key and value exactly as sent, so that keys that differ
\* only in case are different keys.  All spellings give the same response and
\* the same effect, the table's.
C16_CaseInsensitive ==
    [][\A c \in Conns :
          /\ \A b \in CaseBodies :
                (ReadPayload(c, b) /\ NameOf(b) # "" /\ Len(b.list) - 1 = TableArity(NameOf(b)))
                   => /\ data' = data
                      /\ IF NameOf(b) = "PING"
                         THEN pc'[c] = "RESPOND" /\ response'[c] = <<OK, PONG>>
                         ELSE pc'[c] = "LOCK_WAIT" /\ payload'[c] = b
          /\ (pc[c] \in {"IN_LOCK", "DEL_REMOVE"} /\ pc'[c] # pc[c])
                => \/ /\ pc'[c] = "DEL_REMOVE"
                      /\ NameOf(payload[c]) = "DEL"
                      /\ data' = data
                   \/ /\ pc'[c] = "RESPOND"
                      /\ AtomicOp(NameOf(payload[c]), Tail(payload[c].list), data, data',
                                  response'[c])
      ]_vars

\* C16's case: the key "k" is set; a GET spelled in lower case or capitalised
\* of the key "K" is answered NOT_FOUND.
C16_Witness ==
    \E c \in Conns :
        /\ pc[c] = "RESPOND"
        /\ payload[c].raw = "list"
        /\ Len(payload[c].list) = 2
        /\ payload[c].list[1].s \in Spellings(GET) \ {GET}
        /\ payload[c].list[2] = JStr(<<"K">>)
        /\ JStr(<<"k">>) \in DOMAIN data
        /\ response[c] = <<ERR, NOT_FOUND>>

\* The number that four bytes spell, most significant byte first.
BigEndian(h) == ((h[1] * 256 + h[2]) * 256 + h[3]) * 256 + h[4]

\* C17: framing round-trip.  (1) The frame that pack_message makes of a
\* payload is a header of 4 bytes that spell the payload's length in bytes,
\* most significant first, followed by exactly the payload's bytes.  (2) The
\* header read takes exactly the 4 bytes of the header and yields that length,
\* whatever the chunks recv returned.  (3) The payload read that follows
\* returns exactly the bytes of the payload the peer framed, of the announced
\* length (0 included: the empty payload is returned as no bytes), whatever
\* the chunks, and leaves every later byte of the stream unread.
C17_FramingRoundTrip ==
    [][\A c \in Conns :
          /\ Len(sent'[c]) = Len(sent[c]) + 1
                => LET bytes == sent'[c][Len(sent'[c])]
                       frame == SubSeq(wire'[c], Len(wire[c]) + 1, Len(wire'[c]))
                   IN  /\ IsPrefix(wire[c], wire'[c])
                       /\ Len(frame) = 4 + Len(bytes)
                       /\ \A i \in 1..Len(frame) : frame[i] \in 0..255
                       /\ BigEndian(SubSeq(frame, 1, 4)) = Len(bytes)
                       /\ SubSeq(frame, 5, Len(frame)) = bytes
          /\ (pc[c] = "AWAIT_HEADER" /\ pc'[c] = "AWAIT_PAYLOAD")
                => /\ read_data'[c] = <<>>
                   /\ Len(read_data[c]) + Len(wire[c]) - Len(wire'[c]) = 4
                   /\ read_data[c] \o wire[c]
                         = SubSeq(read_data[c] \o wire[c], 1, 4) \o wire'[c]
                   /\ payload_length'[c] = BigEndian(SubSeq(read_data[c] \o wire[c], 1, 4))
                   /\ sent[c] # <<>> => payload_length'[c] = Len(Head(sent[c]))
                   /\ sent'[c] = sent[c]
          /\ (pc[c] = "AWAIT_PAYLOAD" /\ unanswered'[c] = unanswered[c] + 1)
                => /\ sent[c] # <<>>
                   /\ payload_length[c] = Len(Head(sent[c]))
                   /\ read_data[c] \o wire[c] = Head(sent[c]) \o wire'[c]
                   /\ read_data'[c] = <<>>
                   /\ sent'[c] = Tail(sent[c])
                   /\ IF pc'[c] = "CLOSED"
                      THEN Head(sent[c]) = <<>> /\ why'[c] = "empty_payload"
                      ELSE Bytes(payload'[c]) = Head(sent[c])
      ]_vars

\* C17's case: a frame with a payload was read whole and its request is being
\* handled, while bytes that the peer wrote after that frame wait unread.
C17_Witness ==
    \E c \in Conns :
        /\ pc[c] \in {"LOCK_WAIT", "IN_LOCK", "RESPOND"}
        /\ payload[c].raw = "list"
        /\ Len(payload[c].list) = 3
        /\ read_data[c] = <<>>
        /\ wire[c] # <<>>

\* ------------------------------------------------ claims, across operations
\* C18: GET and EXISTS agree.  On the same state of the Store, EXISTS k
\* answers ["OK",1] when the dict has k and ["OK",0] when it has not, and GET k
\* answers ["OK", v] exactly in the states where EXISTS k answers ["OK",1],
\* ["ERR","NOT_FOUND"] exactly in the states where EXISTS k answers ["OK",0].
C18_GetExistsAgree ==
    [][\A c \in Conns :
          /\ Completes(c, "EXISTS")
                => response'[c] = <<OK, JNum(IF DictHas(data, KeyArg(c)) THEN 1 ELSE 0)>>
          /\ Completes(c, "GET")
                => /\ response'[c] \in {<<ERR, NOT_FOUND>>} \cup {<<OK, data[k]>> : k \in DOMAIN data}
                   /\ DictHas(data, KeyArg(c)) <=> Head(response'[c]) = OK
                   /\ ~DictHas(data, KeyArg(c)) <=> response'[c] = <<ERR, NOT_FOUND>>
      ]_vars

\* C19: cross-connection visibility.  (1) The step that gives a handler its
\* response to a SET or to a DEL that found its key is the step that changes
\* the dict, so the change is made before the response is written.  (2) When
\* the response to a SET or DEL is written, or its write fails, the Store is
\* left as it is: the change stays, and while it is the last change of its
\* key the dict shows it.  (3) A GET or EXISTS of a key on any connection
\* answers by the last change of the key, whichever connection made it and
\* whether or not that connection's response was delivered: the value SET, or
\* NOT_FOUND / 0 after a DEL.
C19_CrossConnectionVisibility ==
    [][\A c \in Conns :
          /\ Completes(c, "SET")
                => /\ DictHas(data', KeyArg(c)) /\ data'[KeyArg(c)] = Args(c)[2]
                   /\ lastMut'[KeyArg(c)] = Mutation("SET", c, Args(c)[2])
                   /\ response'[c] = <<OK>>
          /\ (Completes(c, "DEL") /\ response'[c] = <<OK, JNum(1)>>)
                => /\ ~DictHas(data', KeyArg(c))
                   /\ lastMut'[KeyArg(c)] = Mutation("DEL", c, JNull)
          /\ (pc[c] = "RESPOND" /\ Branch(c) \in {"SET", "DEL"} /\ pc'[c] # pc[c])
                => /\ data' = data
                   /\ lastMut' = lastMut
                   /\ response[c] # <<OK, JNum(0)>>
                        => /\ LastMut(KeyArg(c)).op # ""
                           /\ LastMut(KeyArg(c)).by = c
                                => /\ LastMut(KeyArg(c)).op = Branch(c)
                                   /\ IF Branch(c) = "SET"
                                      THEN DictHas(data', KeyArg(c))
                                           /\ data'[KeyArg(c)] = Args(c)[2]
                                      ELSE ~DictHas(data', KeyArg(c))
          /\ Completes(c, "GET")
                => response'[c] = IF LastMut(KeyArg(c)).op = "SET"
                                  THEN <<OK, LastMut(KeyArg(c)).val>>
                                  ELSE <<ERR, NOT_FOUND>>
          /\ Completes(c, "EXISTS")
                => response'[c] = <<OK, JNum(IF LastMut(KeyArg(c)).op = "SET" THEN 1 ELSE 0)>>
      ]_vars

\* C19's case: the write of the response to connection a's SET failed and a
\* was closed; connection b's later GET of the key returns a's value.
C19_Witness ==
    \E a, b \in Conns :
        /\ a # b
        /\ pc[a] = "CLOSED"
        /\ why[a] = "transport"
        /\ LastMut(client[a].key) = Mutation("SET", a, ValOf(a))
        /\ pc[b] = "RESPOND"
        /\ Handling(b, "GET")
        /\ KeyArg(b) = client[a].key
        /\ response[b] = <<OK, ValOf(a)>>

====
